---- MODULE Spec2Model ----
(***************************************************************************)
(* Model of the authentication core of aula-mcp-server:                    *)
(*   - SessionManager   (session/sessionManager.ts): file-backed store     *)
(*   - QRCaptureSession (browser/qrCapture.ts): browser capture controller *)
(*   - keepalive timer, client initialisation and the auth tool handlers   *)
(*     (index.ts, tools/auth.ts)                                           *)
(* Time is measured in clock units of UnitMs milliseconds.                  *)
(***************************************************************************)
EXTENDS Integers, FiniteSets, Sequences, TLC

\* ---------------------------------------------------------------- bounds
MaxTime == 4
MaxTimers == 2
MaxInflight == 1
MaxSessions == 2
MaxClients == 2
MaxRequests == 2
MaxClosers == 2
\* Callbacks of one timer in flight at once when ticks overlap (SpecOverlap).
MaxOverlap == 2

\* ------------------------------------------------------------- constants
\* qrCapture.ts: COOKIE_POLL_MS = 3_000, PAGE_REFRESH_MS = 4 * 60 * 1000
UnitMs == 2 * 60 * 1000
COOKIE_POLL_MS == 3000 \div UnitMs
PAGE_REFRESH_MS == (4 * 60 * 1000) \div UnitMs
\* tools/auth.ts: qrSession.pollForAuth(120_000)
PollTimeoutMs == 120000 \div UnitMs
\* index.ts: if (consecutiveFailures >= 3)
MaxConsecutiveFailures == 3
\* qrCapture.ts: lastPageRefresh = 0 until the first navigation, that is
\* the epoch, far before the first instant of the model's clock
Epoch == -1000

VARIABLES
  file,        \* content of data/session.json
  tmp,         \* content of data/session.json.tmp
  now,         \* Date.now(), in clock units
  ev,          \* label of the last step: operation, input, outcome
  execPath,    \* config.browser.executablePath is set
  aulaClient,  \* index.ts aulaClient: 0 is null, else the client's number
  clientsCreated,
  keepaliveInterval,   \* index.ts keepaliveInterval: 0 is null, else the timer
  timers,              \* the interval timers that exist (not cleared)
  timersCreated,
  consecutiveFailures, \* per timer: the counter of its callback's closure
  inflight,            \* per timer: callbacks suspended in await PingAula()
  qrSession,   \* index.ts qrSession: 0 is null, else the latest session
  browser,     \* per QRCaptureSession: this.browser is not null
  page,        \* per QRCaptureSession: this.page is not null
  lastPageRefresh,     \* per QRCaptureSession
  proc,        \* per QRCaptureSession: its browser process
  closers,     \* per QRCaptureSession: close() calls from outside poll that are
               \* suspended in await this.browser.close()
  pc,          \* where the request in progress is suspended
  deadline,    \* pollForAuth: deadline
  sessionId,   \* pollForAuth: sessionId
  snap,        \* aula_session_status: session.lastPinged as first read
  requests     \* tool calls received so far

storeVars == <<file, tmp, now>>
kaVars == <<keepaliveInterval, timers, timersCreated, consecutiveFailures>>
qrVars == <<qrSession, browser, page, lastPageRefresh, proc>>
locals == <<deadline, sessionId, snap, requests>>
sysVars ==
  <<execPath, aulaClient, clientsCreated, keepaliveInterval, timers,
    timersCreated, consecutiveFailures, inflight, qrSession, browser, page,
    lastPageRefresh, proc, closers, pc, deadline, sessionId, snap, requests>>
vars ==
  <<file, tmp, now, ev, execPath, aulaClient, clientsCreated,
    keepaliveInterval, timers, timersCreated, consecutiveFailures, inflight,
    qrSession, browser, page, lastPageRefresh, proc, closers, pc, deadline,
    sessionId, snap, requests>>

\* ------------------------------------------------------ StoredSession
Creds == {"", "s1", "s2"}

Rec(id, pinged, created, st) ==
  [kind |-> "record", phpsessid |-> id, lastPinged |-> pinged,
   createdAt |-> created, status |-> st]

NoRec(k) ==
  [kind |-> k, phpsessid |-> "", lastPinged |-> 0, createdAt |-> 0,
   status |-> "none"]

Absent == NoRec("absent")     \* the file does not exist
Corrupt == NoRec("corrupt")   \* the file exists and is not valid JSON
Partial == NoRec("partial")   \* a write was cut short: truncated JSON
Null == NoRec("null")         \* the value null of the program

\* A read without its try/catch: the error of readFileSync or JSON.parse
\* on an unparseable file reaches the caller.
readNoCatch(f) ==
  IF f.kind = "record" THEN f
  ELSE IF f.kind = "absent" THEN Null ELSE NoRec("threw")

\* SessionManager.read: null for a missing or unparseable file.
read(f) == IF f.kind = "record" THEN f ELSE Null

\* Outcomes of one call of SessionManager.write, the process surviving it.
WriteOutcomes == {"ok", "fail_write", "fail_rename"}
\* In the server process the two failures are one case: the error is
\* rethrown after the temp file is removed.
SysWriteOutcomes == {"ok", "fail_rename"}
\* Points at which the process may die inside write.
CrashPoints == {"crash_before_tmp", "crash_mid_tmp", "crash_after_tmp",
                "crash_after_rename"}

\* A write that stores straight into the target file (no temp file).
writeInPlace(f, t, session, o, unlinkOk) ==
  CASE o = "ok" -> [file |-> session, tmp |-> t, threw |-> FALSE]
    [] o = "fail_write" -> [file |-> Partial, tmp |-> t, threw |-> TRUE]
    [] o = "fail_rename" -> [file |-> session, tmp |-> t, threw |-> TRUE]
    [] o = "crash_before_tmp" -> [file |-> f, tmp |-> t, threw |-> TRUE]
    [] o = "crash_mid_tmp" -> [file |-> Partial, tmp |-> t, threw |-> TRUE]
    [] OTHER -> [file |-> session, tmp |-> t, threw |-> TRUE]

\* A write whose catch block rethrows without removing the temp file.
writeNoCleanup(f, t, session, o, unlinkOk) ==
  CASE o = "ok" -> [file |-> session, tmp |-> Absent, threw |-> FALSE]
    [] o = "fail_write" -> [file |-> f, tmp |-> Partial, threw |-> TRUE]
    [] o = "fail_rename" -> [file |-> f, tmp |-> session, threw |-> TRUE]
    [] o = "crash_before_tmp" -> [file |-> f, tmp |-> t, threw |-> TRUE]
    [] o = "crash_mid_tmp" -> [file |-> f, tmp |-> Partial, threw |-> TRUE]
    [] o = "crash_after_tmp" -> [file |-> f, tmp |-> session, threw |-> TRUE]
    [] OTHER -> [file |-> session, tmp |-> Absent, threw |-> TRUE]

\* SessionManager.write: writeFileSync(tmp), renameSync(tmp, file); on an
\* error unlinkSync(tmp) (its own error ignored) and rethrow.
write(f, t, session, o, unlinkOk) ==
  CASE o = "ok" -> [file |-> session, tmp |-> Absent, threw |-> FALSE]
    [] o = "fail_write" ->
         [file |-> f, tmp |-> IF unlinkOk THEN Absent ELSE Partial,
          threw |-> TRUE]
    [] o = "fail_rename" ->
         [file |-> f, tmp |-> IF unlinkOk THEN Absent ELSE session,
          threw |-> TRUE]
    [] o = "crash_before_tmp" -> [file |-> f, tmp |-> t, threw |-> TRUE]
    [] o = "crash_mid_tmp" -> [file |-> f, tmp |-> Partial, threw |-> TRUE]
    [] o = "crash_after_tmp" -> [file |-> f, tmp |-> session, threw |-> TRUE]
    [] OTHER -> [file |-> session, tmp |-> Absent, threw |-> TRUE]

\* No write happens: the operation returned before calling write.
noWrite(f, t) == [file |-> f, tmp |-> t, threw |-> FALSE]

\* createdAt is replaced on every call.
setKnownAulaSessionIdFresh(f, aulaSessionId, t) ==
  Rec(aulaSessionId, t, t, "active")

\* createdAt is kept only from a record that is still active.
setKnownAulaSessionIdActiveOnly(f, aulaSessionId, t) ==
  LET current == read(f) IN
  Rec(aulaSessionId, t,
      IF current # Null /\ current.status = "active" THEN current.createdAt ELSE t,
      "active")

\* SessionManager.setKnownAulaSessionId: the record handed to write.
setKnownAulaSessionId(f, aulaSessionId, t) ==
  LET current == read(f) IN
  Rec(aulaSessionId, t,
      IF current # Null /\ current.createdAt # 0 THEN current.createdAt ELSE t,
      "active")

\* SessionManager.getKnownAulaSessionId
getKnownAulaSessionId(f) ==
  LET session == read(f) IN
  IF session # Null /\ session.phpsessid # "" THEN session.phpsessid ELSE ""

\* SessionManager.getSession
getSession(f) == read(f)

\* SessionManager.getSessionAge at time t: the empty sequence for null,
\* <<hours, minutes>> for the text "<hours>h <minutes>m", <<minutes>> for
\* "<minutes>m".
getSessionAge(f, t) ==
  LET session == read(f) IN
  IF session = Null THEN <<>>
  ELSE LET ageMs == (t - session.createdAt) * UnitMs
           hours == ageMs \div (1000 * 60 * 60)
           minutes == (ageMs % (1000 * 60 * 60)) \div (1000 * 60)
       IN IF hours > 0 THEN <<hours, minutes>> ELSE <<minutes>>

\* The status is not looked at.
isSessionAvailableAnyStatus(f) ==
  LET session == read(f) IN session # Null /\ session.phpsessid # ""

\* The credential is not looked at.
isSessionAvailableAnyId(f) ==
  LET session == read(f) IN
  session # Null /\ session.status = "active"

\* SessionManager.isSessionAvailable
isSessionAvailable(f) ==
  LET session == read(f) IN
  session # Null /\ session.phpsessid # "" /\ session.status = "active"

\* A touch that rewrites createdAt along with lastPinged.
updateLastPingedBoth(f, t) ==
  LET current == read(f) IN
  IF current = Null THEN Null
  ELSE [current EXCEPT !.lastPinged = t, !.createdAt = t]

\* A touch that also sets the status back to active.
updateLastPingedReactivate(f, t) ==
  LET current == read(f) IN
  IF current = Null THEN Null
  ELSE [current EXCEPT !.lastPinged = t, !.status = "active"]

\* SessionManager.updateLastPinged: the record handed to write, or Null
\* when it returns without writing.
updateLastPinged(f, t) ==
  LET current == read(f) IN
  IF current = Null THEN Null ELSE [current EXCEPT !.lastPinged = t]

\* An expiry mark that also empties the credential.
markExpiredClearId(f) ==
  LET current == read(f) IN
  IF current = Null THEN Null
  ELSE [current EXCEPT !.status = "expired", !.phpsessid = ""]

\* An expiry mark that writes an expired record when none exists.
markExpiredCreate(f) ==
  LET current == read(f) IN
  IF current = Null THEN Rec("", 0, 0, "expired")
  ELSE [current EXCEPT !.status = "expired"]

\* SessionManager.markExpired: the record handed to write, or Null.
markExpired(f) ==
  LET current == read(f) IN
  IF current = Null THEN Null ELSE [current EXCEPT !.status = "expired"]

\* SessionManager.clearSession: existsSync, then unlinkSync.
clearSession(f) == Absent

\* A store mutation as a whole: the record it computes, written with
\* outcome o; nothing is written when the record is Null.
store(f, t, session, o, unlinkOk) ==
  IF session = Null THEN noWrite(f, t) ELSE write(f, t, session, o, unlinkOk)

\* ------------------------------------------------ store harness (SpecStore)
\* The store operations called one at a time, in any order, with any
\* argument and any outcome of the file system, a crash included (the
\* process restarts and reads the file again).
InitFiles ==
  {Absent, Corrupt} \cup {Rec(c, 1, 1, st) : c \in {"s1"}, st \in {"active", "expired"}}

EvF(op, arg, o, u, n) ==
  [op |-> op, arg |-> arg, outcome |-> o, url |-> u, n |-> n]
Ev(op, arg, o) == EvF(op, arg, o, {}, 0)

\* The process before main() runs.
InitSys ==
  /\ execPath \in BOOLEAN
  /\ aulaClient = 0
  /\ clientsCreated = 0
  /\ keepaliveInterval = 0
  /\ timers = {}
  /\ timersCreated = 0
  /\ consecutiveFailures = [t \in 1..MaxTimers |-> 0]
  /\ inflight = [t \in 1..MaxTimers |-> 0]
  /\ qrSession = 0
  /\ browser = [q \in 1..MaxSessions |-> FALSE]
  /\ page = [q \in 1..MaxSessions |-> FALSE]
  /\ lastPageRefresh = [q \in 1..MaxSessions |-> Epoch]
  /\ proc = [q \in 1..MaxSessions |-> "none"]
  /\ closers = [q \in 1..MaxSessions |-> 0]
  /\ deadline = 0
  /\ sessionId = ""
  /\ snap = 0
  /\ requests = 0

InitStore ==
  /\ file \in InitFiles
  /\ tmp = Absent
  /\ now = 1
  /\ ev = Ev("init", "", "ok")
  /\ InitSys
  /\ execPath = TRUE
  /\ pc = "harness"

Outcome(o, r) == IF r.threw THEN o ELSE "ok"

StoreSet ==
  \E v \in Creds, o \in WriteOutcomes \cup CrashPoints, u \in BOOLEAN :
    LET r == store(file, tmp, setKnownAulaSessionId(file, v, now), o, u) IN
    /\ file' = r.file
    /\ tmp' = r.tmp
    /\ ev' = Ev("set", v, Outcome(o, r))
    /\ UNCHANGED <<now, sysVars>>

StoreTouch ==
  \E o \in WriteOutcomes \cup CrashPoints, u \in BOOLEAN :
    LET r == store(file, tmp, updateLastPinged(file, now), o, u) IN
    /\ file' = r.file
    /\ tmp' = r.tmp
    /\ ev' = Ev("touch", "", Outcome(o, r))
    /\ UNCHANGED <<now, sysVars>>

StoreMarkExpired ==
  \E o \in WriteOutcomes \cup CrashPoints, u \in BOOLEAN :
    LET r == store(file, tmp, markExpired(file), o, u) IN
    /\ file' = r.file
    /\ tmp' = r.tmp
    /\ ev' = Ev("markExpired", "", Outcome(o, r))
    /\ UNCHANGED <<now, sysVars>>

\* The four read operations, each one call of read(); the answer of the
\* call is "no_session" when read() gave null, "threw" if an error left it.
StoreRead ==
  \E which \in {"getKnownAulaSessionId", "getSession", "isSessionAvailable",
                "getSessionAge"} :
    /\ ev' = Ev("read", which,
                CASE read(file) = Null -> "no_session"
                  [] read(file).kind = "threw" -> "threw"
                  [] OTHER -> "session")
    /\ UNCHANGED <<file, tmp, now, sysVars>>

StoreClear ==
  /\ file' = clearSession(file)
  /\ ev' = Ev("clear", "", "ok")
  /\ UNCHANGED <<tmp, now, sysVars>>

ClockTick ==
  /\ now < MaxTime
  /\ now' = now + 1
  /\ ev' = Ev("clock", "", "ok")
  /\ UNCHANGED <<file, tmp, sysVars>>

NextStore ==
  \/ StoreSet
  \/ StoreTouch
  \/ StoreMarkExpired
  \/ StoreClear
  \/ StoreRead
  \/ ClockTick

SpecStore == InitStore /\ [][NextStore]_vars

\* ==================================================================
\* The server process (Spec): main(), the keepalive timer, the three
\* auth tools called one after the other by the client, the capture
\* controller. A step runs from one await to the next; timer callbacks
\* and the user closing the window interleave at the awaits.
\* ==================================================================

\* ---------------------------------------------------- index.ts: keepalive
NewTimer ==
  LET t == timersCreated + 1 IN
  /\ timersCreated < MaxTimers
  /\ timersCreated' = t
  /\ keepaliveInterval' = t
  /\ timers' = timers \cup {t}
  /\ consecutiveFailures' = [consecutiveFailures EXCEPT ![t] = 0]

\* startKeepalive without its first line.
startKeepaliveNoGuard == NewTimer

\* index.ts startKeepalive: setInterval unless one is already running.
startKeepalive ==
  IF keepaliveInterval # 0 THEN UNCHANGED kaVars ELSE NewTimer

\* index.ts stopKeepalive, on the timer variables it assigns.
stopKeepalive ==
  IF keepaliveInterval # 0
  THEN /\ timers' = timers \ {keepaliveInterval}
       /\ keepaliveInterval' = 0
  ELSE UNCHANGED <<keepaliveInterval, timers>>

\* initAulaClient without its call of startKeepalive.
initAulaClientNoKeepalive ==
  /\ clientsCreated < MaxClients
  /\ clientsCreated' = clientsCreated + 1
  /\ aulaClient' = clientsCreated + 1
  /\ UNCHANGED kaVars

\* index.ts initAulaClient after client.Login() resolved: the client is
\* installed and the keepalive started.
initAulaClientOk ==
  /\ clientsCreated < MaxClients
  /\ clientsCreated' = clientsCreated + 1
  /\ aulaClient' = clientsCreated + 1
  /\ startKeepalive

\* The interval fires with a client present: the callback calls PingAula
\* and is suspended. (Without a client it returns at once and changes
\* nothing.) The period is config.pingIntervalMinutes, any positive
\* number of minutes, so a tick may fall at any point of a request.
TickFire ==
  \E t \in timers :
    /\ pc # "exited"
    /\ aulaClient # 0
    /\ inflight[t] < MaxInflight
    /\ inflight' = [inflight EXCEPT ![t] = @ + 1]
    /\ ev' = EvF("tick_fire", "", "ping", {}, t)
    /\ UNCHANGED <<storeVars, execPath, closers, aulaClient, clientsCreated, kaVars,
                   qrVars, pc, locals>>

FailureCap == MaxConsecutiveFailures + MaxInflight

\* A suspended callback resumes: PingAula resolved (ping = "ok") or
\* rejected. An error thrown by markExpired leaves the catch block (the
\* callback's promise rejects).
TickDone ==
  \E t \in 1..MaxTimers, ping \in {"ok", "fail"}, o1 \in SysWriteOutcomes,
     o2 \in SysWriteOutcomes :
    LET r1 == store(file, tmp, updateLastPinged(file, now), o1, TRUE)
        r2 == store(file, tmp, markExpired(file), o2, TRUE)
        n == consecutiveFailures[t] + 1
    IN
    /\ pc # "exited"
    /\ inflight[t] > 0
    /\ inflight' = [inflight EXCEPT ![t] = @ - 1]
    /\ IF ping = "ok" /\ ~r1.threw
       THEN /\ file' = r1.file
            /\ tmp' = r1.tmp
            /\ consecutiveFailures' = [consecutiveFailures EXCEPT ![t] = 0]
            /\ ev' = EvF("tick_done", ping, "ok", {}, t)
            /\ UNCHANGED <<aulaClient, keepaliveInterval, timers>>
       ELSE /\ n <= FailureCap
            /\ consecutiveFailures' = [consecutiveFailures EXCEPT ![t] = n]
            /\ IF n < MaxConsecutiveFailures
               THEN /\ ev' = EvF("tick_done", ping, "strike", {}, t)
                    /\ UNCHANGED <<file, tmp, aulaClient, keepaliveInterval, timers>>
               ELSE IF r2.threw
               THEN /\ ev' = EvF("tick_done", ping, "threw", {}, t)
                    /\ UNCHANGED <<file, tmp, aulaClient, keepaliveInterval, timers>>
               ELSE /\ file' = r2.file
                    /\ tmp' = r2.tmp
                    /\ aulaClient' = 0
                    /\ stopKeepalive
                    /\ ev' = EvF("tick_done", ping, "expired", {}, t)
    /\ UNCHANGED <<now, execPath, closers, clientsCreated, timersCreated, qrVars, pc, locals>>

\* ---------------------------------------------------------- index.ts: main
MainStart ==
  /\ pc = "main"
  /\ pc' = IF isSessionAvailable(file) THEN "main_Login" ELSE "idle"
  /\ ev' = Ev("main", "", IF isSessionAvailable(file) THEN "restore" ELSE "connect")
  /\ UNCHANGED <<storeVars, execPath, closers, aulaClient, clientsCreated, kaVars, inflight,
                 qrVars, locals>>

\* await initAulaClient() in main resumes; a throwing markExpired ends in
\* main().catch and process.exit(1).
MainLogin ==
  /\ pc = "main_Login"
  /\ \/ /\ initAulaClientOk
        /\ pc' = "idle"
        /\ ev' = Ev("main", "", "restored")
        /\ UNCHANGED <<file, tmp>>
     \/ \E o \in SysWriteOutcomes :
          LET r == store(file, tmp, markExpired(file), o, TRUE) IN
          /\ file' = r.file
          /\ tmp' = r.tmp
          /\ pc' = IF r.threw THEN "exited" ELSE "idle"
          /\ ev' = Ev("main", "", IF r.threw THEN "threw" ELSE "stale")
          /\ UNCHANGED <<aulaClient, clientsCreated, kaVars>>
  /\ UNCHANGED <<now, execPath, closers, inflight, qrVars, locals>>

\* ------------------------------------------- browser/qrCapture.ts: helpers
isOpen(q) == browser[q] /\ page[q]

Markers == {"/portal", "#/", "login"}
NoCookie == "none"
Cookies == {NoCookie} \cup Creds

\* The URL is taken for logged in only when it has the portal path.
isLoggedInPortalOnly(url) == "/portal" \in url

\* pollForAuth: isLoggedIn, on the markers the URL contains.
isLoggedIn(url) == "/portal" \in url \/ "#/" \in url \/ "login" \notin url

\* pollForAuth: phpCookie?.value
hasValue(c) == c # NoCookie /\ c # ""

\* The comparison is >= instead of >.
isStaleInclusive(q, t) == t - lastPageRefresh[q] >= PAGE_REFRESH_MS

\* pollForAuth: Date.now() - this.lastPageRefresh > PAGE_REFRESH_MS
isStale(q, t) == t - lastPageRefresh[q] > PAGE_REFRESH_MS

\* pollForAuth after the cookie check: reload when stale, else sleep
\* (this.page.reload on a null handle throws at once, into the catch).
Staleness(q) ==
  pc' = IF isStale(q, now) /\ page[q] THEN "poll_reload" ELSE "poll_sleep"

\* pollForAuth's loop head without the isClosed() test.
LoopHeadNoClosedCheck(q, t, dl) ==
  IF ~(t < dl)
  THEN /\ pc' = "idle"
       /\ deadline' = 0
       /\ ev' = Ev("poll_return", "", "waiting")
       /\ UNCHANGED <<browser, page>>
  ELSE /\ pc' = "poll_cookies"
       /\ deadline' = dl
       /\ ev' = Ev("poll_tick", "", "open")
       /\ UNCHANGED <<browser, page>>

\* pollForAuth releasing the browser when the deadline has passed.
LoopHeadReleaseOnTimeout(q, t, dl) ==
  IF ~(t < dl)
  THEN /\ pc' = "idle"
       /\ deadline' = 0
       /\ ev' = Ev("poll_return", "", "waiting")
       /\ browser' = [browser EXCEPT ![q] = FALSE]
       /\ page' = [page EXCEPT ![q] = FALSE]
  ELSE IF proc[q] = "alive" /\ page[q]
  THEN /\ pc' = "poll_cookies"
       /\ deadline' = dl
       /\ ev' = Ev("poll_tick", "", "open")
       /\ UNCHANGED <<browser, page>>
  ELSE \E how \in {"true", "throws"} :
       /\ browser' = [browser EXCEPT ![q] = FALSE]
       /\ page' = [page EXCEPT ![q] = FALSE]
       /\ pc' = "idle"
       /\ deadline' = 0
       /\ ev' = Ev("poll_return", how, "browser_closed")

\* pollForAuth from the loop condition to the first await: the timeout,
\* then the closed check (isClosed() true or throwing; it throws as well
\* when a close() from outside has set this.page to null).
LoopHead(q, t, dl) ==
  IF ~(t < dl)
  THEN /\ pc' = "idle"
       /\ deadline' = 0
       /\ ev' = Ev("poll_return", "", "waiting")
       /\ UNCHANGED <<browser, page>>
  ELSE IF proc[q] = "alive" /\ page[q]
  THEN /\ pc' = "poll_cookies"
       /\ deadline' = dl
       /\ ev' = Ev("poll_tick", "", "open")
       /\ UNCHANGED <<browser, page>>
  ELSE \E how \in {"true", "throws"} :
       /\ browser' = [browser EXCEPT ![q] = FALSE]
       /\ page' = [page EXCEPT ![q] = FALSE]
       /\ pc' = "idle"
       /\ deadline' = 0
       /\ ev' = Ev("poll_return", how, "browser_closed")

\* --------------------------------------------------- tools/auth.ts: aula_login
\* The QR flow without the test of config.browser.executablePath.
QRFlowNoConfigCheck(how) ==
  /\ qrSession < MaxSessions
  /\ qrSession' = qrSession + 1
  /\ pc' = "launch"
  /\ ev' = Ev("login_qr", how, "launching")
  /\ UNCHANGED <<browser, page, lastPageRefresh, proc>>

\* The QR flow of aula_login up to the first await of launchAndCaptureQR:
\* a new QRCaptureSession replaces the reference, then the configuration
\* is checked.
QRFlow(how) ==
  /\ qrSession < MaxSessions
  /\ qrSession' = qrSession + 1
  /\ IF execPath
     THEN /\ pc' = "launch"
          /\ ev' = Ev("login_qr", how, "launching")
     ELSE /\ pc' = "idle"
          /\ ev' = Ev("login_return", how, "error_config")
  /\ UNCHANGED <<browser, page, lastPageRefresh, proc>>

LoginStart ==
  /\ pc = "idle"
  /\ requests < MaxRequests
  /\ requests' = requests + 1
  /\ IF isSessionAvailable(file)
     THEN /\ pc' = "login_Login"
          /\ ev' = Ev("login", "", "try_existing")
          /\ UNCHANGED qrVars
     ELSE QRFlow("no_session")
  /\ UNCHANGED <<storeVars, execPath, closers, aulaClient, clientsCreated, kaVars, inflight,
                 deadline, sessionId, snap>>

\* await deps.initAulaClient() resumes (client.Login() resolved or threw).
LoginLogin ==
  /\ pc = "login_Login"
  /\ \/ /\ initAulaClientOk
        /\ pc' = "login_ping"
        /\ ev' = Ev("login", "", "client_ready")
        /\ UNCHANGED <<file, tmp, qrVars>>
     \/ \E o \in SysWriteOutcomes :
          LET r == store(file, tmp, markExpired(file), o, TRUE) IN
          /\ file' = r.file
          /\ tmp' = r.tmp
          /\ UNCHANGED <<aulaClient, clientsCreated, kaVars>>
          /\ IF r.threw
             THEN /\ pc' = "idle"
                  /\ ev' = Ev("login_return", "", "threw")
                  /\ UNCHANGED qrVars
             ELSE QRFlow("login_failed")
  /\ UNCHANGED <<now, execPath, closers, inflight, locals>>

\* await client.PingAula() resumes; an error of updateLastPinged is caught
\* by the same catch as a rejected ping.
LoginPing ==
  /\ pc = "login_ping"
  /\ \E ping \in {"ok", "fail"}, o1 \in SysWriteOutcomes, o2 \in SysWriteOutcomes :
       LET r1 == store(file, tmp, updateLastPinged(file, now), o1, TRUE)
           r2 == store(file, tmp, markExpired(file), o2, TRUE)
       IN
       IF ping = "ok" /\ ~r1.threw
       THEN /\ file' = r1.file
            /\ tmp' = r1.tmp
            /\ pc' = "idle"
            /\ ev' = Ev("login_return", "", "already_authenticated")
            /\ UNCHANGED qrVars
       ELSE IF r2.threw
       THEN /\ pc' = "idle"
            /\ ev' = Ev("login_return", "", "threw")
            /\ UNCHANGED <<file, tmp, qrVars>>
       ELSE /\ file' = r2.file
            /\ tmp' = r2.tmp
            /\ QRFlow(IF ping = "ok" THEN "touch_failed" ELSE "ping_failed")
  /\ UNCHANGED <<now, execPath, closers, aulaClient, clientsCreated, kaVars, inflight, locals>>

\* ------------------------------- qrCapture.ts: launchAndCaptureQR, by await
OpenFail(where) ==
  /\ pc' = "idle"
  /\ ev' = Ev("login_return", where, "error")

Launch ==
  /\ pc = "launch"
  /\ \/ /\ browser' = [browser EXCEPT ![qrSession] = TRUE]
        /\ proc' = [proc EXCEPT ![qrSession] = "alive"]
        /\ pc' = "newPage"
        /\ ev' = Ev("open", "launch", "ok")
     \/ /\ OpenFail("launch")
        /\ UNCHANGED <<browser, proc>>
  /\ UNCHANGED <<storeVars, execPath, closers, aulaClient, clientsCreated, kaVars, inflight,
                 qrSession, page, lastPageRefresh, locals>>

NewPage ==
  /\ pc = "newPage"
  /\ \/ /\ proc[qrSession] = "alive"
        /\ page' = [page EXCEPT ![qrSession] = TRUE]
        /\ pc' = "goto"
        /\ ev' = Ev("open", "newPage", "ok")
     \/ /\ OpenFail("newPage")
        /\ UNCHANGED page
  /\ UNCHANGED <<storeVars, execPath, closers, aulaClient, clientsCreated, kaVars, inflight,
                 qrSession, browser, lastPageRefresh, proc, locals>>

Goto ==
  /\ pc = "goto"
  /\ \/ /\ proc[qrSession] = "alive"
        /\ lastPageRefresh' = [lastPageRefresh EXCEPT ![qrSession] = now]
        /\ pc' = "open_shot"
        /\ ev' = Ev("open", "goto", "ok")
     \/ /\ OpenFail("goto")
        /\ UNCHANGED lastPageRefresh
  /\ UNCHANGED <<storeVars, execPath, closers, aulaClient, clientsCreated, kaVars, inflight,
                 qrSession, browser, page, proc, locals>>

\* waitForTimeout(3000) and takeScreenshot, taken as one await.
OpenShot ==
  /\ pc = "open_shot"
  /\ \/ /\ proc[qrSession] = "alive"
        /\ page[qrSession]
        /\ pc' = "idle"
        /\ ev' = Ev("login_return", "", "challenge")
     \/ OpenFail("screenshot")
  /\ UNCHANGED <<storeVars, execPath, closers, aulaClient, clientsCreated, kaVars, inflight,
                 qrVars, locals>>

\* The user closes the window of the capture in progress.
UserCloses ==
  \E q \in {qrSession} \ {0} :
    /\ proc[q] = "alive"
    /\ pc # "exited"
    /\ proc' = [proc EXCEPT ![q] = "closed"]
    /\ ev' = EvF("user_close", "", "ok", {}, q)
    /\ UNCHANGED <<storeVars, execPath, closers, aulaClient, clientsCreated, kaVars, inflight,
                   qrSession, browser, page, lastPageRefresh, pc, locals>>

\* --------------------------- qrCapture.ts: close(), called from outside poll
\* close() up to its await: with a browser handle, browser.close() is
\* called and close() is suspended; without one, both handles are set to
\* null at once.
closeCall(q) ==
  IF browser[q]
  THEN /\ closers[q] < MaxClosers
       /\ closers' = [closers EXCEPT ![q] = @ + 1]
       /\ UNCHANGED <<browser, page>>
  ELSE /\ browser' = [browser EXCEPT ![q] = FALSE]
       /\ page' = [page EXCEPT ![q] = FALSE]
       /\ UNCHANGED closers

\* close() without its try/catch: a rejected browser.close() leaves close()
\* before the handles are set to null.
closeDoneNoCatch(q) ==
  /\ closers[q] > 0
  /\ closers' = [closers EXCEPT ![q] = @ - 1]
  /\ \E closed \in BOOLEAN :
       /\ proc' = [proc EXCEPT ![q] = IF closed THEN "closed" ELSE @]
       /\ browser' = [browser EXCEPT ![q] = IF closed THEN FALSE ELSE @]
       /\ page' = [page EXCEPT ![q] = IF closed THEN FALSE ELSE @]

\* close() that drops the browser handle and keeps the page handle.
closeDoneBrowserOnly(q) ==
  /\ closers[q] > 0
  /\ closers' = [closers EXCEPT ![q] = @ - 1]
  /\ \E closed \in BOOLEAN :
       proc' = [proc EXCEPT ![q] = IF closed THEN "closed" ELSE @]
  /\ browser' = [browser EXCEPT ![q] = FALSE]
  /\ UNCHANGED page

\* await this.browser.close() resumes, resolved (the process is gone) or
\* rejected (ignored, the process may live on); both handles are set to
\* null.
closeDone(q) ==
  /\ closers[q] > 0
  /\ closers' = [closers EXCEPT ![q] = @ - 1]
  /\ \E closed \in BOOLEAN :
       proc' = [proc EXCEPT ![q] = IF closed THEN "closed" ELSE @]
  /\ browser' = [browser EXCEPT ![q] = FALSE]
  /\ page' = [page EXCEPT ![q] = FALSE]

\* ------------------------------------------- index.ts: SIGINT / SIGTERM
\* The handler up to its await: the keepalive is stopped; an open capture
\* session is closed, otherwise the process exits at once.
Signal ==
  /\ pc # "exited"
  /\ stopKeepalive
  /\ IF qrSession # 0 /\ isOpen(qrSession)
     THEN /\ closeCall(qrSession)
          /\ ev' = EvF("signal", "", "closing", {}, qrSession)
          /\ UNCHANGED pc
     ELSE /\ pc' = "exited"
          /\ ev' = Ev("signal", "", "exit")
          /\ UNCHANGED <<browser, page, closers>>
  /\ UNCHANGED <<storeVars, execPath, aulaClient, clientsCreated, timersCreated,
                 consecutiveFailures, inflight, qrSession, lastPageRefresh, proc,
                 locals>>

\* await qrSession.close() in the handler resumes: process.exit(0).
SignalExit ==
  \E q \in 1..MaxSessions :
    /\ pc # "exited"
    /\ closeDone(q)
    /\ pc' = "exited"
    /\ ev' = EvF("signal", "", "exit", {}, q)
    /\ UNCHANGED <<storeVars, execPath, aulaClient, clientsCreated, kaVars, inflight,
                   qrSession, lastPageRefresh, locals>>

\* ------------------------- tools/auth.ts: aula_check_auth and pollForAuth
CheckStart ==
  /\ pc = "idle"
  /\ requests < MaxRequests
  /\ requests' = requests + 1
  /\ IF qrSession = 0 \/ ~isOpen(qrSession)
     THEN /\ pc' = "idle"
          /\ ev' = Ev("check_return", "", "no_flow")
          /\ UNCHANGED <<browser, page, deadline>>
     ELSE LoopHead(qrSession, now, now + PollTimeoutMs)
  /\ UNCHANGED <<storeVars, execPath, closers, aulaClient, clientsCreated, kaVars, inflight,
                 qrSession, lastPageRefresh, proc, sessionId, snap>>

\* await this.page.cookies() resumes: the cookie and URL check, the store
\* write and the start of close().
PollCookies ==
  /\ pc = "poll_cookies"
  /\ \/ /\ Staleness(qrSession)
        /\ ev' = EvF("poll_check", NoCookie, "threw", {}, 0)
        /\ UNCHANGED <<file, tmp, sessionId>>
     \/ \E c \in Cookies :
          /\ proc[qrSession] = "alive"
          /\ ~hasValue(c)
          /\ Staleness(qrSession)
          /\ ev' = EvF("poll_check", c, "no_cookie", {}, 0)
          /\ UNCHANGED <<file, tmp, sessionId>>
     \/ \E c \in Cookies, u \in SUBSET Markers :
          /\ proc[qrSession] = "alive"
          /\ page[qrSession]
          /\ hasValue(c)
          /\ IF ~isLoggedIn(u)
             THEN /\ Staleness(qrSession)
                  /\ ev' = EvF("poll_check", c, "not_logged_in", u, 0)
                  /\ UNCHANGED <<file, tmp, sessionId>>
             ELSE \E o \in SysWriteOutcomes :
                  LET r == store(file, tmp, setKnownAulaSessionId(file, c, now), o, TRUE) IN
                  IF r.threw
                  THEN /\ Staleness(qrSession)
                       /\ ev' = EvF("poll_check", c, "store_failed", u, 0)
                       /\ UNCHANGED <<file, tmp, sessionId>>
                  ELSE /\ file' = r.file
                       /\ tmp' = r.tmp
                       /\ sessionId' = c
                       /\ pc' = "poll_closing"
                       /\ ev' = EvF("poll_check", c, "stored", u, 0)
  /\ UNCHANGED <<now, execPath, closers, aulaClient, clientsCreated, kaVars, inflight, qrVars,
                 deadline, snap, requests>>

\* await this.browser.close() resumes (its error ignored): the handles are
\* dropped, pollForAuth returns authenticated and aula_check_auth calls
\* initAulaClient.
PollClosing ==
  /\ pc = "poll_closing"
  /\ \E closed \in BOOLEAN :
       proc' = [proc EXCEPT ![qrSession] =
                  IF closed /\ browser[qrSession] THEN "closed" ELSE @]
  /\ browser' = [browser EXCEPT ![qrSession] = FALSE]
  /\ page' = [page EXCEPT ![qrSession] = FALSE]
  /\ pc' = "check_Login"
  /\ deadline' = 0
  /\ sessionId' = ""
  /\ ev' = Ev("poll_return", sessionId, "authenticated")
  /\ UNCHANGED <<storeVars, execPath, closers, aulaClient, clientsCreated, kaVars, inflight,
                 qrSession, lastPageRefresh, snap, requests>>

\* await deps.initAulaClient() in aula_check_auth resumes.
CheckLogin ==
  /\ pc = "check_Login"
  /\ \/ /\ initAulaClientOk
        /\ ev' = Ev("check_return", "", "authenticated")
     \/ /\ ev' = Ev("check_return", "", "init_failed")
        /\ UNCHANGED <<aulaClient, clientsCreated, kaVars>>
  /\ pc' = "idle"
  /\ UNCHANGED <<storeVars, execPath, closers, inflight, qrVars, locals>>

\* The reload without its try/catch: a rejected reload leaves pollForAuth.
PollReloadNoCatch ==
  /\ pc = "poll_reload"
  /\ \/ /\ proc[qrSession] = "alive"
        /\ lastPageRefresh' = [lastPageRefresh EXCEPT ![qrSession] = now]
        /\ pc' = IF page[qrSession] THEN "poll_shot" ELSE "poll_sleep"
        /\ ev' = Ev("poll_reload", "", "ok")
     \/ /\ pc' = "idle"
        /\ ev' = Ev("poll_reload", "", "threw")
        /\ UNCHANGED lastPageRefresh
  /\ UNCHANGED <<storeVars, execPath, closers, aulaClient, clientsCreated, kaVars,
                 inflight, qrSession, browser, page, proc, locals>>

\* await this.page.reload() resumes.
PollReload ==
  /\ pc = "poll_reload"
  /\ \/ /\ proc[qrSession] = "alive"
        /\ lastPageRefresh' = [lastPageRefresh EXCEPT ![qrSession] = now]
        /\ pc' = IF page[qrSession] THEN "poll_shot" ELSE "poll_sleep"
        /\ ev' = Ev("poll_reload", "", "ok")
     \/ /\ pc' = "poll_sleep"
        /\ ev' = Ev("poll_reload", "", "threw")
        /\ UNCHANGED lastPageRefresh
  /\ UNCHANGED <<storeVars, execPath, closers, aulaClient, clientsCreated, kaVars, inflight,
                 qrSession, browser, page, proc, locals>>

\* waitForTimeout(3000) and takeScreenshot after the reload, as one await.
PollShot ==
  /\ pc = "poll_shot"
  /\ \/ /\ proc[qrSession] = "alive"
        /\ page[qrSession]
        /\ pc' = "idle"
        /\ deadline' = 0
        /\ ev' = Ev("poll_return", "", "qr_refreshed")
     \/ /\ pc' = "poll_sleep"
        /\ ev' = Ev("poll_shot", "", "threw")
        /\ UNCHANGED deadline
  /\ UNCHANGED <<storeVars, execPath, closers, aulaClient, clientsCreated, kaVars, inflight,
                 qrVars, sessionId, snap, requests>>

\* The inter-poll delay ends, COOKIE_POLL_MS or more after it began, and
\* the loop condition is evaluated.
PollSleep ==
  /\ pc = "poll_sleep"
  /\ \E d \in COOKIE_POLL_MS..(MaxTime - now) :
       /\ now' = now + d
       /\ LoopHead(qrSession, now', deadline)
  /\ UNCHANGED <<file, tmp, execPath, closers, aulaClient, clientsCreated, kaVars, inflight,
                 qrSession, lastPageRefresh, proc, sessionId, snap, requests>>

\* ---------------------------------------- tools/auth.ts: aula_session_status
StatusStart ==
  /\ pc = "idle"
  /\ requests < MaxRequests
  /\ requests' = requests + 1
  /\ LET session == getSession(file) IN
     IF session = Null \/ session.phpsessid = ""
     THEN /\ ev' = Ev("status_return", "No session stored", "not_authenticated")
          /\ UNCHANGED <<pc, snap>>
     ELSE IF session.status # "active"
     THEN /\ ev' = Ev("status_return", "Session status", "not_authenticated")
          /\ UNCHANGED <<pc, snap>>
     ELSE IF aulaClient = 0
     THEN /\ ev' = Ev("status_return", "client not initialized", "not_authenticated")
          /\ UNCHANGED <<pc, snap>>
     ELSE /\ pc' = "status_ping"
          /\ snap' = session.lastPinged
          /\ ev' = Ev("status", "", "ping")
  /\ UNCHANGED <<storeVars, execPath, closers, aulaClient, clientsCreated, kaVars, inflight,
                 qrVars, deadline, sessionId>>

\* await client.PingAula() resumes; lastPinged in the answer is taken from
\* the session object read at the start of the handler.
StatusPing ==
  /\ pc = "status_ping"
  /\ \E ping \in {"ok", "fail"}, o1 \in SysWriteOutcomes, o2 \in SysWriteOutcomes :
       LET r1 == store(file, tmp, updateLastPinged(file, now), o1, TRUE)
           r2 == store(file, tmp, markExpired(file), o2, TRUE)
       IN
       IF ping = "ok" /\ ~r1.threw
       THEN /\ file' = r1.file
            /\ tmp' = r1.tmp
            /\ ev' = EvF("status_return", "", "authenticated", {}, snap)
       ELSE IF r2.threw
       THEN /\ ev' = Ev("status_return", "", "threw")
            /\ UNCHANGED <<file, tmp>>
       ELSE /\ file' = r2.file
            /\ tmp' = r2.tmp
            /\ ev' = Ev("status_return", "Session expired (ping failed)",
                        "not_authenticated")
  /\ pc' = "idle"
  /\ snap' = 0
  /\ UNCHANGED <<now, execPath, closers, aulaClient, clientsCreated, kaVars, inflight, qrVars,
                 deadline, sessionId, requests>>

\* ------------------------------------------------------------ the process
Init ==
  /\ file \in InitFiles
  /\ tmp = Absent
  /\ now = 1
  /\ ev = Ev("init", "", "ok")
  /\ InitSys
  /\ pc = "main"

\* Time passes between requests (and in the inter-poll delay, PollSleep);
\* the other awaits are short against the clock unit.
Clock ==
  /\ pc = "idle"
  /\ ClockTick

Next ==
  \/ MainStart
  \/ MainLogin
  \/ TickFire
  \/ TickDone
  \/ LoginStart
  \/ LoginLogin
  \/ LoginPing
  \/ Launch
  \/ NewPage
  \/ Goto
  \/ OpenShot
  \/ UserCloses
  \/ CheckStart
  \/ PollCookies
  \/ PollClosing
  \/ CheckLogin
  \/ PollReload
  \/ PollShot
  \/ PollSleep
  \/ StatusStart
  \/ StatusPing
  \/ Clock

Spec == Init /\ [][Next]_vars

\* The server process with the shutdown signals.
\* The server process started on any session file, a record with an empty
\* credential included (setKnownAulaSessionId accepts any string and the
\* file outlives the process).
InitAnyFile ==
  /\ file \in InitFiles \cup {Rec("", 1, 1, st) : st \in {"active", "expired"}}
  /\ tmp = Absent
  /\ now = 1
  /\ ev = Ev("init", "", "ok")
  /\ InitSys
  /\ pc = "main"

SpecAnyFile == InitAnyFile /\ [][Next]_vars

\* The interval fires again while an earlier callback of the same timer is
\* still awaiting its ping (setInterval does not wait for the callback's
\* promise).
TickFireOverlapping ==
  \E t \in timers :
    /\ pc # "exited"
    /\ aulaClient # 0
    /\ inflight[t] >= MaxInflight
    /\ inflight[t] < MaxOverlap
    /\ inflight' = [inflight EXCEPT ![t] = @ + 1]
    /\ ev' = EvF("tick_fire", "", "ping", {}, t)
    /\ UNCHANGED <<storeVars, execPath, closers, aulaClient, clientsCreated, kaVars,
                   qrVars, pc, locals>>

\* The server process started on a stored active session, with
\* overlapping keepalive callbacks.
InitOverlap ==
  /\ file = Rec("s1", 1, 1, "active")
  /\ tmp = Absent
  /\ now = 1
  /\ ev = Ev("init", "", "ok")
  /\ InitSys
  /\ execPath = TRUE
  /\ pc = "main"

NextOverlap ==
  \/ Next
  \/ TickFireOverlapping

SpecOverlap == InitOverlap /\ [][NextOverlap]_vars

\* A suspended callback resumes with its ping rejected (every ping fails
\* from some point on). The code's counter grows without bound; here it
\* stays at FailureCap once it has reached it.
TickDoneFailing ==
  \E t \in 1..MaxTimers, o2 \in SysWriteOutcomes :
    LET r2 == store(file, tmp, markExpired(file), o2, TRUE)
        n == IF consecutiveFailures[t] < FailureCap
             THEN consecutiveFailures[t] + 1 ELSE FailureCap
    IN
    /\ pc # "exited"
    /\ inflight[t] > 0
    /\ inflight' = [inflight EXCEPT ![t] = @ - 1]
    /\ consecutiveFailures' = [consecutiveFailures EXCEPT ![t] = n]
    /\ IF n < MaxConsecutiveFailures
       THEN /\ ev' = EvF("tick_done", "fail", "strike", {}, t)
            /\ UNCHANGED <<file, tmp, aulaClient, keepaliveInterval, timers>>
       ELSE IF r2.threw
       THEN /\ ev' = EvF("tick_done", "fail", "threw", {}, t)
            /\ UNCHANGED <<file, tmp, aulaClient, keepaliveInterval, timers>>
       ELSE /\ file' = r2.file
            /\ tmp' = r2.tmp
            /\ aulaClient' = 0
            /\ stopKeepalive
            /\ ev' = EvF("tick_done", "fail", "expired", {}, t)
    /\ UNCHANGED <<now, execPath, closers, clientsCreated, timersCreated, qrVars, pc,
                   locals>>

\* The server process with its keepalive, every keepalive ping failing,
\* and aula_session_status requests; the timer fires again and again and
\* every ping is answered (weak fairness of the two callback steps).
NextExpiry ==
  \/ MainStart
  \/ MainLogin
  \/ TickFire
  \/ TickDoneFailing
  \/ StatusStart
  \/ StatusPing
  \/ Clock

SpecExpiry ==
  /\ Init
  /\ [][NextExpiry]_vars
  /\ WF_vars(TickFire)
  /\ WF_vars(TickDoneFailing)

NextShutdown ==
  \/ Next
  \/ Signal
  \/ SignalExit

SpecShutdown == Init /\ [][NextShutdown]_vars

\* ==================================================================
\* The capture controller on its own (SpecQR): a caller creates one
\* QRCaptureSession and opens it, then calls pollForAuth and refreshQR one
\* after the other, while close() may be called at any moment, any
\* number of times, and the user may close the window.
\* ==================================================================
InitQR ==
  /\ file \in {Absent, Rec("s1", 1, 1, "expired")}
  /\ tmp = Absent
  /\ now = 1
  /\ ev = Ev("init", "", "ok")
  /\ InitSys
  /\ pc = "idle"

\* new QRCaptureSession(...) and launchAndCaptureQR() up to its first await.
QROpen ==
  /\ pc = "idle"
  /\ qrSession = 0
  /\ QRFlow("direct")
  /\ UNCHANGED <<storeVars, execPath, closers, aulaClient, clientsCreated, kaVars,
                 inflight, locals>>

\* pollForAuth(timeoutMs) up to its first await.
QRPoll ==
  /\ pc = "idle"
  /\ qrSession # 0
  /\ IF ~page[qrSession] \/ ~browser[qrSession]
     THEN /\ ev' = Ev("poll_return", "not_open", "browser_closed")
          /\ UNCHANGED <<pc, browser, page, deadline>>
     ELSE \E timeoutMs \in PollTimeoutMs..(2 * PollTimeoutMs) :
            LoopHead(qrSession, now, now + timeoutMs)
  /\ UNCHANGED <<storeVars, execPath, closers, aulaClient, clientsCreated, kaVars,
                 inflight, qrSession, lastPageRefresh, proc, sessionId, snap,
                 requests>>

\* The caller receives the authenticated result.
QRPollReturned ==
  /\ pc = "check_Login"
  /\ pc' = "idle"
  /\ ev' = Ev("caller", "", "authenticated")
  /\ UNCHANGED <<storeVars, execPath, closers, aulaClient, clientsCreated, kaVars,
                 inflight, qrVars, locals>>

\* refreshQR() up to its first await.
QRRefresh ==
  /\ pc = "idle"
  /\ qrSession # 0
  /\ IF ~page[qrSession]
     THEN /\ ev' = Ev("refresh_return", "no_page", "null")
          /\ UNCHANGED pc
     ELSE /\ pc' = "refresh_reload"
          /\ ev' = Ev("refresh", "", "reload")
  /\ UNCHANGED <<storeVars, execPath, closers, aulaClient, clientsCreated, kaVars,
                 inflight, qrVars, locals>>

\* await this.page.reload() in refreshQR resumes.
RefreshReload ==
  /\ pc = "refresh_reload"
  /\ \/ /\ proc[qrSession] = "alive"
        /\ lastPageRefresh' = [lastPageRefresh EXCEPT ![qrSession] = now]
        /\ IF page[qrSession]
           THEN /\ pc' = "refresh_shot"
                /\ ev' = Ev("refresh", "", "reloaded")
           ELSE /\ pc' = "idle"
                /\ ev' = Ev("refresh_return", "settle", "null")
     \/ /\ pc' = "idle"
        /\ ev' = Ev("refresh_return", "reload", "null")
        /\ UNCHANGED lastPageRefresh
  /\ UNCHANGED <<storeVars, execPath, closers, aulaClient, clientsCreated, kaVars,
                 inflight, qrSession, browser, page, proc, locals>>

\* waitForTimeout(3000) and takeScreenshot in refreshQR, as one await.
RefreshShot ==
  /\ pc = "refresh_shot"
  /\ pc' = "idle"
  /\ \/ /\ proc[qrSession] = "alive"
        /\ page[qrSession]
        /\ ev' = Ev("refresh_return", "", "screenshot")
     \/ ev' = Ev("refresh_return", "screenshot", "null")
  /\ UNCHANGED <<storeVars, execPath, closers, aulaClient, clientsCreated, kaVars,
                 inflight, qrVars, locals>>

\* close() is called on the controller.
QRClose ==
  /\ qrSession # 0
  /\ closeCall(qrSession)
  /\ ev' = IF browser[qrSession]
           THEN EvF("close", "", "closing", {}, qrSession)
           ELSE EvF("close", "no_browser", "closed", {}, qrSession)
  /\ UNCHANGED <<storeVars, execPath, aulaClient, clientsCreated, kaVars, inflight,
                 qrSession, lastPageRefresh, proc, pc, locals>>

\* A suspended close() resumes and returns.
QRCloseDone ==
  \E q \in 1..MaxSessions :
    /\ closeDone(q)
    /\ ev' = EvF("close", "", "closed", {}, q)
    /\ UNCHANGED <<storeVars, execPath, aulaClient, clientsCreated, kaVars, inflight,
                   qrSession, lastPageRefresh, pc, locals>>

NextQR ==
  \/ QROpen
  \/ Launch
  \/ NewPage
  \/ Goto
  \/ OpenShot
  \/ QRPoll
  \/ PollCookies
  \/ PollClosing
  \/ QRPollReturned
  \/ PollReload
  \/ PollShot
  \/ PollSleep
  \/ QRRefresh
  \/ RefreshReload
  \/ RefreshShot
  \/ QRClose
  \/ QRCloseDone
  \/ UserCloses
  \/ Clock

SpecQR == InitQR /\ [][NextQR]_vars

\* ==================================================================
\* Properties of the session store (checked under SpecStore)
\* ==================================================================

\* The record a store operation hands to write, Null when it writes nothing.
Intended(op, arg, f, t) ==
  CASE op = "set" -> setKnownAulaSessionId(f, arg, t)
    [] op = "touch" -> updateLastPinged(f, t)
    [] op = "markExpired" -> markExpired(f)
    [] OTHER -> Null

\* C7: a setCredential(v) that returns leaves one record on disk with
\* credential v, status active, lastCheckedAt = now and createdAt equal to
\* the previous record's createdAt when a record existed, else now; no
\* second copy (temp file) remains, so two calls in a row leave only the
\* latest credential.
C7_SetCredentialPost ==
  [][ (ev'.op = "set" /\ ev'.outcome = "ok") =>
        /\ file'.kind = "record"
        /\ file'.phpsessid = ev'.arg
        /\ file'.status = "active"
        /\ file'.lastPinged = now
        /\ file'.createdAt = (IF file.kind = "record" THEN file.createdAt ELSE now)
        /\ tmp' = Absent
        /\ getKnownAulaSessionId(file') = ev'.arg
    ]_vars

\* A second setCredential replaced the credential and kept the first createdAt.
C7_Witness ==
  /\ ev.op = "set" /\ ev.outcome = "ok" /\ ev.arg = "s2"
  /\ file.phpsessid = "s2"
  /\ file.createdAt < file.lastPinged

\* C8: while a record exists, no setCredential, touch or markExpired
\* (whatever its outcome) changes its createdAt; only clear() removes the
\* record, and the setCredential after it starts a new createdAt.
C8_CreatedAtSetOnce ==
  [][ (file.kind = "record" /\ ev'.op # "clear") =>
        (file'.kind = "record" /\ file'.createdAt = file.createdAt) ]_vars

\* A fresh capture stored over an expired record, createdAt still the old one.
C8_Witness ==
  /\ ev.op = "set" /\ ev.outcome = "ok"
  /\ file.status = "active" /\ file.phpsessid = "s2"
  /\ file.createdAt = 1 /\ now = MaxTime

\* C9: isAvailable() is true iff a record exists with a non-empty
\* credential and status active; it is false after markExpired, after
\* clear, for a missing or corrupt file and after setCredential("").
C9_IsAvailable ==
  /\ isSessionAvailable(file) <=>
       (file.kind = "record" /\ file.phpsessid # "" /\ file.status = "active")
  /\ (ev.op = "markExpired" /\ ev.outcome = "ok") => ~isSessionAvailable(file)
  /\ ev.op = "clear" => ~isSessionAvailable(file)
  /\ file \in {Absent, Corrupt, Partial} => ~isSessionAvailable(file)
  /\ (ev.op = "set" /\ ev.outcome = "ok" /\ ev.arg = "") => ~isSessionAvailable(file)

\* markExpired has just turned an available session into an unavailable one.
C9_Witness ==
  /\ ev.op = "markExpired" /\ ev.outcome = "ok"
  /\ file.kind = "record" /\ file.phpsessid = "s2" /\ file.status = "expired"

\* C10: when the process dies inside a store write, at any point, the
\* next read returns the complete old record (or none if none existed) or
\* the complete new record.
C10_AtomicPersistence ==
  [][ ev'.outcome \in CrashPoints =>
        /\ file'.kind # "partial"
        /\ \/ read(file') = read(file)
           \/ read(file') = Intended(ev'.op, ev'.arg, file, now)
    ]_vars

\* The process died between the temp write and the rename: the new record
\* is complete in the temp file, the old one still in place.
C10_Witness ==
  /\ ev.outcome = "crash_after_tmp"
  /\ tmp.kind = "record" /\ file.kind = "record"
  /\ tmp.phpsessid # file.phpsessid

\* ==================================================================
\* Properties of the server process (checked under Spec)
\* ==================================================================

\* C1: whenever poll() returns authenticated{credential}, the store was
\* written first and the browser released before the return, so that at
\* the return the store holds exactly the returned credential with status
\* active and isOpen is false.
C1_AuthenticatedReturn ==
  (ev.op = "poll_return" /\ ev.outcome = "authenticated") =>
    /\ file.kind = "record"
    /\ file.phpsessid = ev.arg
    /\ file.status = "active"
    /\ ~isOpen(qrSession)

C4_ThreeStrikes ==
  (ev.op = "tick_done" /\ ev.arg = "fail") =>
    IF consecutiveFailures[ev.n] >= MaxConsecutiveFailures
    THEN /\ file.status = "expired"
         /\ aulaClient = 0
         /\ keepaliveInterval = 0
         /\ timers = {}
    ELSE ev.n \in timers

\* C5: a tick whose ping succeeded leaves the failure counter at zero, and
\* the keepalive expires the session only on a tick whose ping failed.
C5_OnlyConsecutiveFailures ==
  /\ (ev.op = "tick_done" /\ ev.arg = "ok") => consecutiveFailures[ev.n] = 0
  /\ (ev.op = "tick_done" /\ ev.outcome = "expired") => ev.arg = "fail"

\* C6: at most one timer exists, and it is the one keepaliveInterval
\* refers to; a client initialization while a timer runs creates no timer
\* and leaves the running one and its failure counter as they are, one
\* without a running timer creates exactly one new timer; after
\* stopKeepalive no timer exists.
C6_KeepaliveIdempotent ==
  /\ [](/\ Cardinality(timers) <= 1
        /\ timers = IF keepaliveInterval = 0 THEN {} ELSE {keepaliveInterval})
  /\ [][ LET started == \/ ev'.op = "main" /\ ev'.outcome = "restored"
                        \/ ev'.op = "login" /\ ev'.outcome = "client_ready"
                        \/ ev'.op = "check_return" /\ ev'.outcome = "authenticated"
         IN
         /\ (started /\ keepaliveInterval # 0) => UNCHANGED kaVars
         /\ (started /\ keepaliveInterval = 0) =>
              /\ timers' = {timersCreated + 1}
              /\ keepaliveInterval' = timersCreated + 1
         /\ (ev'.op = "tick_done" /\ ev'.outcome = "expired") =>
              /\ timers' = {}
              /\ keepaliveInterval' = 0
     ]_vars

\* A second client was initialized after a capture while the timer of the
\* first was running: still the first timer, and no other.
C6_Witness ==
  /\ ev.op = "check_return" /\ ev.outcome = "authenticated"
  /\ clientsCreated = 2 /\ timersCreated = 1
  /\ keepaliveInterval = 1 /\ timers = {1}

\* ==================================================================
\* Properties of the capture controller (checked under SpecQR)
\* ==================================================================

\* C11: whenever a close() returns, whether browser.close() resolved or
\* rejected, both handles are null (isOpen is false); a close() called
\* when both handles are already null and no other close() is in progress
\* returns at once and changes nothing.
C11_CloseIdempotent ==
  [][ ev'.op = "close" =>
        /\ ev'.outcome = "closed" =>
             ~browser'[ev'.n] /\ ~page'[ev'.n]
        /\ (~browser[ev'.n] /\ ~page[ev'.n] /\ closers[ev'.n] = 0) =>
             /\ ev'.outcome = "closed"
             /\ UNCHANGED <<storeVars, qrVars, closers, pc, locals>>
    ]_vars

\* close() was called a second time after a first close() whose
\* browser.close() had been rejected: nothing to do, handles still null.
C11_Witness ==
  /\ ev.op = "close" /\ ev.arg = "no_browser" /\ ev.outcome = "closed"
  /\ proc[ev.n] = "alive"
  /\ ~browser[ev.n] /\ ~page[ev.n]

\* C12: isOpen becomes true only in a step of open(); it becomes false
\* only in the step in which poll() returns authenticated or
\* browser_closed, or in a step of close(); the steps in which poll()
\* returns waiting or qr_refreshed, and every step of refresh(), leave
\* both handles as they are, and at a qr_refreshed return the controller
\* is open.
C12_StateMachine ==
  /\ [][ /\ \A q \in 1..MaxSessions :
              /\ (~isOpen(q) /\ isOpen(q)') => (ev'.op = "open" /\ q = qrSession)
              /\ (isOpen(q) /\ ~isOpen(q)') =>
                   \/ /\ ev'.op = "poll_return"
                      /\ ev'.outcome \in {"authenticated", "browser_closed"}
                      /\ q = qrSession
                   \/ ev'.op = "close" /\ ev'.n = q
         /\ ( \/ /\ ev'.op = "poll_return"
                 /\ ev'.outcome \in {"waiting", "qr_refreshed"}
              \/ ev'.op \in {"refresh", "refresh_return"} ) =>
              UNCHANGED <<browser, page>>
     ]_vars
  /\ []((ev.op = "poll_return" /\ ev.outcome = "qr_refreshed") => isOpen(qrSession))

\* poll() ran into its deadline and returned waiting with the controller
\* still open on a live browser.
C12_Witness ==
  /\ ev.op = "poll_return" /\ ev.outcome = "waiting"
  /\ isOpen(qrSession) /\ proc[qrSession] = "alive"

\* C13: a poll tick that begins before the deadline with the page closed
\* (isClosed() true, or throwing) returns browser_closed with both handles
\* null and without a store write; pollForAuth called on a controller
\* that is not open returns browser_closed in the same step, with no
\* delay, no store write and no change of the handles.
C13_BrowserClosed ==
  [][ LET q == qrSession
          head == ev'.op = "poll_tick" \/ ev'.op = "poll_return"
      IN
      /\ (pc = "idle" /\ head /\ ~isOpen(q)) =>
           /\ ev'.outcome = "browser_closed" /\ ev'.arg = "not_open"
           /\ UNCHANGED <<file, tmp, now, browser, page, lastPageRefresh, pc>>
      /\ ( /\ pc \in {"idle", "poll_sleep"} /\ head
           /\ pc = "idle" => isOpen(q)
           /\ pc = "poll_sleep" => now' < deadline
           /\ proc[q] # "alive" \/ ~page[q] ) =>
           /\ ev'.outcome = "browser_closed" /\ ev'.arg \in {"true", "throws"}
           /\ ~browser'[q] /\ ~page'[q]
           /\ pc' = "idle"
           /\ UNCHANGED <<file, tmp>>
      /\ (ev'.op = "poll_return" /\ ev'.outcome = "browser_closed") =>
           \/ ev'.arg = "not_open" /\ ~isOpen(q)
           \/ ev'.arg \in {"true", "throws"} /\ (proc[q] # "alive" \/ ~page[q])
    ]_vars

\* The user closed the window during the inter-poll delay; the next tick
\* returned browser_closed and dropped both handles.
C13_Witness ==
  /\ ev.op = "poll_return" /\ ev.outcome = "browser_closed" /\ ev.arg = "true"
  /\ proc[qrSession] = "closed"
  /\ ~browser[qrSession] /\ ~page[qrSession]
  /\ closers[qrSession] = 0 /\ now > 1

\* ==================================================================
\* Properties of polling, login and shutdown in the server process
\* ==================================================================

\* C14: every threshold crossing that poll() acts on (the page is
\* reloaded and the refresh timestamp advanced) produces a qr_refreshed
\* result, and the timestamp has advanced to the time of the reload
\* whenever qr_refreshed is produced.
C14_OneRefreshPerCrossing ==
  [][ /\ (pc = "poll_shot" /\ pc' # "poll_shot") =>
           (ev'.op = "poll_return" /\ ev'.outcome = "qr_refreshed")
      /\ (ev'.op = "poll_return" /\ ev'.outcome = "qr_refreshed") =>
           lastPageRefresh'[qrSession] = now
    ]_vars

\* C15: poll() reloads the page only on a tick at which the time since
\* the last refresh is strictly above PAGE_REFRESH_MS, and within a poll
\* the refresh timestamp changes only by such a reload; qr_refreshed is
\* returned only after the reload, with the timestamp set to the time of
\* the reload, in the step that ends the call, with both handles
\* unchanged and the controller open.
C15_RefreshOnlyWhenStale ==
  [][ LET q == qrSession
          polling == pc \in {"poll_cookies", "poll_closing", "poll_reload",
                             "poll_shot", "poll_sleep"}
      IN
      /\ ev'.op = "poll_reload" =>
           /\ pc = "poll_reload"
           /\ now - lastPageRefresh[q] > PAGE_REFRESH_MS
      /\ (polling /\ lastPageRefresh' # lastPageRefresh) =>
           /\ ev'.op = "poll_reload" /\ ev'.outcome = "ok"
           /\ lastPageRefresh'[q] = now
      /\ (pc' = "poll_shot" /\ pc # "poll_shot") =>
           (ev'.op = "poll_reload" /\ ev'.outcome = "ok")
      /\ (ev'.op = "poll_return" /\ ev'.outcome = "qr_refreshed") =>
           /\ pc = "poll_shot" /\ pc' = "idle"
           /\ lastPageRefresh[q] = now
           /\ UNCHANGED <<browser, page, lastPageRefresh>>
           /\ isOpen(q)
    ]_vars

\* The challenge shown at time 1 was refreshed by a poll at the end of
\* the clock, and the poll returned qr_refreshed.
C15_Witness ==
  /\ ev.op = "poll_return" /\ ev.outcome = "qr_refreshed"
  /\ now = MaxTime /\ lastPageRefresh[qrSession] = MaxTime
  /\ isOpen(qrSession) /\ pc = "idle"

\* C16: a failed cookie or URL read, a failed reload and a failed
\* screenshot after it end neither the poll nor the capture: the handles, the store and the refresh timestamp
\* stay as they are and the poll goes on to the staleness check or the
\* inter-poll delay; after the delay the loop condition and the closed
\* check are evaluated again; the poll leaves its loop only by returning
\* authenticated, waiting, qr_refreshed or browser_closed.
C16_TransientFailuresAbsorbed ==
  [][ LET polling == {"poll_cookies", "poll_closing", "poll_reload", "poll_shot",
                      "poll_sleep"}
      IN
      /\ (ev'.op = "poll_check" /\ ev'.outcome = "threw") =>
           /\ pc' \in {"poll_reload", "poll_sleep"}
           /\ UNCHANGED <<file, tmp, browser, page, lastPageRefresh>>
      /\ (ev'.op = "poll_reload" /\ ev'.outcome = "threw") =>
           /\ pc' = "poll_sleep"
           /\ UNCHANGED <<file, tmp, browser, page, lastPageRefresh>>
      /\ (ev'.op = "poll_shot" /\ ev'.outcome = "threw") =>
           /\ pc' = "poll_sleep"
           /\ UNCHANGED <<file, tmp, browser, page, lastPageRefresh>>
      /\ (pc = "poll_sleep" /\ pc' # pc) =>
           \/ ev'.op = "poll_tick" /\ pc' = "poll_cookies"
           \/ ev'.op = "poll_return" /\ ev'.outcome \in {"waiting", "browser_closed"}
      /\ (pc \in polling /\ pc' \notin polling) =>
           /\ ev'.op = "poll_return"
           /\ ev'.outcome \in {"authenticated", "waiting", "qr_refreshed",
                               "browser_closed"}
    ]_vars

\* The reload was rejected while the browser is alive: the poll is in its
\* delay with the controller open, the timestamp still the old one.
C16_Witness ==
  /\ ev.op = "poll_reload" /\ ev.outcome = "threw"
  /\ pc = "poll_sleep"
  /\ isOpen(qrSession) /\ proc[qrSession] = "alive"
  /\ now - lastPageRefresh[qrSession] > PAGE_REFRESH_MS

\* C17: at most one browser process launched by the core is alive, every
\* live one is the browser of the session the process refers to, and a
\* startLogin issued while that session is open creates no new session.
C17_SingleCaptureSession ==
  /\ [](/\ Cardinality({q \in 1..MaxSessions : proc[q] = "alive"}) <= 1
        /\ \A q \in 1..MaxSessions : proc[q] = "alive" => q = qrSession)
  /\ [][ (qrSession # 0 /\ isOpen(qrSession)) => qrSession' = qrSession ]_vars

\* C18: when the process has exited through the SIGINT/SIGTERM handler, no
\* browser process launched by the core is still alive.
C18_ShutdownReleases ==
  (pc = "exited" /\ ev.op = "signal") =>
     \A q \in 1..MaxSessions : proc[q] # "alive"

\* C19: once a close() from outside has been called on the controller while
\* a poll is suspended at the cookie read, the reload, the screenshot or
\* the delay, that poll stores no credential and returns browser_closed
\* only.
C19_CloseRace ==
  [][ ( /\ qrSession # 0
        /\ pc \in {"poll_cookies", "poll_reload", "poll_shot", "poll_sleep"}
        /\ (closers[qrSession] > 0 \/ ~browser[qrSession]) )
      => /\ ~(ev'.op = "poll_check" /\ ev'.outcome = "stored")
         /\ (ev'.op = "poll_return" => ev'.outcome = "browser_closed") ]_vars

\* C20: every step of the server process leaves the session file as it was
\* or replaces it by the result of one whole store mutation applied to the
\* record just before the step (the set, the touch or the expiry mark), so
\* the record is always the outcome of the mutations in the order they ran;
\* and a keepalive step leaves the capture session's reference, handles and
\* refresh timestamp alone.
C20_SerialStore ==
  [][ /\ \/ file' = file
         \/ \E c \in Creds :
              file' = [kind |-> "record", phpsessid |-> c, lastPinged |-> now',
                       createdAt |-> IF file.kind = "record" /\ file.createdAt # 0
                                     THEN file.createdAt ELSE now',
                       status |-> "active"]
         \/ /\ file.kind = "record"
            /\ file' = [file EXCEPT !.lastPinged = now']
         \/ /\ file.kind = "record"
            /\ file' = [file EXCEPT !.status = "expired"]
      /\ ev'.op \in {"tick_fire", "tick_done"} =>
           UNCHANGED <<qrSession, browser, page, lastPageRefresh, proc>> ]_vars

\* A keepalive callback that began before the poll stored the credential
\* has touched the new record while pollForAuth is closing the browser.
C20_Witness ==
  /\ pc = "poll_closing"
  /\ ev.op = "tick_done"
  /\ ev.outcome = "ok"
  /\ sessionId # ""
  /\ file.kind = "record"
  /\ file.phpsessid = sessionId
  /\ file.status = "active"

\* ------------------------------------------------------------------
\* Properties of login, status and expiry in the server process

\* C21: with the executable path unset no browser is ever launched and
\* every controller keeps both handles null; the step of aula_login that
\* finds the path unset returns an error result to the caller at once
\* (nothing is left pending that could launch later) and writes nothing to
\* the store beyond the expiry mark of the pre-check that preceded it.
C21_ConfigurationError ==
  /\ [](~execPath =>
          /\ \A q \in 1..MaxSessions :
               proc[q] = "none" /\ ~browser[q] /\ ~page[q]
          /\ pc \notin {"launch", "newPage", "goto", "open_shot"})
  /\ [][ ev'.outcome = "error_config" =>
           /\ ~execPath
           /\ ev'.op = "login_return"
           /\ pc' = "idle"
           /\ qrSession' # 0 /\ ~isOpen(qrSession')
           /\ tmp' = tmp
           /\ IF ev'.arg = "no_session" \/ file.kind # "record"
              THEN file' = file
              ELSE file' = [file EXCEPT !.status = "expired"] ]_vars

\* aula_login has just returned the configuration error.
C21_Witness ==
  /\ ev.op = "login_return"
  /\ ev.outcome = "error_config"
  /\ ~execPath
  /\ qrSession # 0
  /\ ~browser[qrSession] /\ ~page[qrSession]

\* C22: a record with status expired stays as it is, status included,
\* except for its lastPinged, in every step but one: the step of poll()
\* that has found the cookie on a logged-in page, which stores that cookie
\* value and makes the record active.
C22_ExpiredUntilNewLogin ==
  [][ (file.kind = "record" /\ file.status = "expired") =>
        \/ /\ file'.kind = "record"
           /\ file'.status = "expired"
           /\ file'.phpsessid = file.phpsessid
           /\ file'.createdAt = file.createdAt
        \/ /\ ev'.op = "poll_check"
           /\ ev'.outcome = "stored"
           /\ isLoggedIn(ev'.url)
           /\ hasValue(ev'.arg)
           /\ file'.kind = "record"
           /\ file'.status = "active"
           /\ file'.phpsessid = ev'.arg ]_vars

\* poll() has just stored a credential over a record that was created
\* earlier and could not be used (the capture flow only starts on such).
C22_Witness ==
  /\ ev.op = "poll_check"
  /\ ev.outcome = "stored"
  /\ file.status = "active"
  /\ file.createdAt < file.lastPinged
  /\ file.phpsessid = ev.arg

\* C23: the credential held by the store (the empty string when the file
\* holds no record) changes in one kind of step only, the step of poll()
\* that found a non-empty cookie on a logged-in page, and the value stored
\* is that cookie value; every other step of the process, the signal
\* handler included, leaves the credential as it was.
C23_CredentialOnlyFromBrowser ==
  [][ (IF file'.kind = "record" THEN file'.phpsessid ELSE "")
        # (IF file.kind = "record" THEN file.phpsessid ELSE "")
      => /\ ev'.op = "poll_check"
         /\ ev'.outcome = "stored"
         /\ isLoggedIn(ev'.url)
         /\ ev'.arg \notin {"", NoCookie}
         /\ file'.kind = "record"
         /\ file'.phpsessid = ev'.arg ]_vars

\* poll() has replaced the credential of an earlier record by another one.
C23_Witness ==
  /\ ev.op = "poll_check"
  /\ ev.outcome = "stored"
  /\ ev.arg = "s2"
  /\ file.kind = "record"
  /\ file.phpsessid = "s2"
  /\ file.createdAt < file.lastPinged

\* C24: when aula_check_auth returns its success result, the file holds a
\* record with a non-empty credential, the client reference is the client
\* just created, and exactly one keepalive timer is running: the one that
\* was running before, or a new one if none was.
C24_CheckLoginSuccess ==
  [][ (ev'.op = "check_return" /\ ev'.outcome = "authenticated") =>
        /\ file'.kind = "record"
        /\ file'.phpsessid # ""
        /\ aulaClient' # 0
        /\ aulaClient' # aulaClient
        /\ aulaClient' = clientsCreated'
        /\ keepaliveInterval' # 0
        /\ timers' = {keepaliveInterval'}
        /\ keepaliveInterval # 0 => keepaliveInterval' = keepaliveInterval ]_vars

\* aula_check_auth has returned success with the timer of an earlier
\* client still running and the second client installed.
C24_Witness ==
  /\ ev.op = "check_return"
  /\ ev.outcome = "authenticated"
  /\ clientsCreated = 2
  /\ aulaClient = 2
  /\ timersCreated = 1
  /\ timers = {1}

\* C25: aula_login answers "already authenticated", creating no capture
\* session, exactly when the store had an available session, the client
\* bootstrap succeeded and the ping succeeded; when the bootstrap or the
\* ping fails the record is marked expired and the capture flow starts in
\* the same step; without an available session the capture flow starts at
\* once and the store is not written.
C25_StartLoginCases ==
  [][ /\ (ev'.op = "login_return" /\ ev'.outcome = "already_authenticated") =>
            pc = "login_ping" /\ UNCHANGED qrVars
      /\ (pc = "idle" /\ ev'.op \in {"login", "login_qr", "login_return"}) =>
            IF isSessionAvailable(file)
            THEN pc' = "login_Login" /\ UNCHANGED qrVars
            ELSE qrSession' = qrSession + 1 /\ file' = file
      /\ (pc = "login_Login" /\ pc' # pc) =>
            \/ pc' = "login_ping" /\ UNCHANGED qrVars
            \/ /\ ev'.arg = "login_failed"
               /\ file.kind = "record" => file' = [file EXCEPT !.status = "expired"]
               /\ qrSession' = qrSession + 1
      /\ (pc = "login_ping" /\ pc' # pc) =>
            \/ ev'.outcome = "already_authenticated"
            \/ /\ ev'.arg = "ping_failed"
               /\ file.kind = "record" => file' = [file EXCEPT !.status = "expired"]
               /\ qrSession' = qrSession + 1 ]_vars

\* C26: when aula_session_status answers authenticated: true, the
\* lastPinged value in the answer is the one its own touch has just
\* written, which is the value the record holds after the call.
C26_StatusReportsUpdatedTouch ==
  [][ (ev'.op = "status_return" /\ ev'.outcome = "authenticated") =>
        /\ file'.kind = "record"
        /\ file'.status = "active"
        /\ file'.lastPinged = now'
        /\ ev'.n = file'.lastPinged ]_vars

\* C27: while the file holds no record, or a record with an empty
\* credential, isSessionAvailable is false, and aula_session_status
\* called then answers authenticated: false with the reason "No session
\* stored" in its first step, without pinging and without writing the
\* file or a temp file.
C27_EmptyStoreStatus ==
  /\ []((file.kind # "record" \/ file.phpsessid = "") => ~isSessionAvailable(file))
  /\ [][ ( /\ pc = "idle"
           /\ ev'.op \in {"status", "status_return"}
           /\ (file.kind # "record" \/ file.phpsessid = "") )
         => /\ ev'.op = "status_return"
            /\ ev'.outcome = "not_authenticated"
            /\ ev'.arg = "No session stored"
            /\ pc' = "idle"
            /\ file' = file
            /\ tmp' = tmp ]_vars

\* aula_session_status has answered "No session stored" on a record that
\* carries no credential.
C27_Witness ==
  /\ ev.op = "status_return"
  /\ ev.arg = "No session stored"
  /\ file.kind = "record"
  /\ file.phpsessid = ""
  /\ file.status = "active"

\* ------------------------------------------------------------------
\* Further properties of the session store (checked under SpecStore)

\* C28: markExpired and touch change nothing, write no temp file and do
\* not fail when the file holds no record; on a record a markExpired that
\* returns changes the status to expired and nothing else, a touch that
\* returns changes lastPinged to the current time and nothing else, and
\* neither changes the record in any other way whatever its outcome; a
\* markExpired on an expired record leaves it as it is.
C28_MarkExpiredTouchFrame ==
  [][ ev'.op \in {"markExpired", "touch"} =>
        LET expected == IF ev'.op = "touch"
                        THEN [file EXCEPT !.lastPinged = now]
                        ELSE [file EXCEPT !.status = "expired"]
        IN
        IF file.kind # "record"
        THEN file' = file /\ tmp' = tmp /\ ev'.outcome = "ok"
        ELSE /\ file' \in {file, expected}
             /\ ev'.outcome = "ok" => file' = expected
             /\ (ev'.op = "markExpired" /\ file.status = "expired") => file' = file
             /\ file'.phpsessid = file.phpsessid
             /\ file'.createdAt = file.createdAt ]_vars

\* A touch has renewed lastPinged of an expired record and left the status,
\* the credential and createdAt alone.
C28_Witness ==
  /\ ev.op = "touch"
  /\ ev.outcome = "ok"
  /\ file.kind = "record"
  /\ file.status = "expired"
  /\ file.phpsessid = "s2"
  /\ file.lastPinged = now
  /\ file.createdAt < now

\* C29: while the file is missing or unparseable, getKnownAulaSessionId
\* gives the empty string, isSessionAvailable false, getSessionAge null
\* and getSession null; a read operation never throws and leaves the file
\* and the temp file as they are.
C29_ReadsNeverFail ==
  /\ [](file.kind # "record" =>
          /\ getKnownAulaSessionId(file) = ""
          /\ ~isSessionAvailable(file)
          /\ getSessionAge(file, now) = <<>>
          /\ getSession(file) = Null)
  /\ [][ ev'.op = "read" =>
           /\ ev'.outcome # "threw"
           /\ file.kind # "record" => ev'.outcome = "no_session"
           /\ file' = file
           /\ tmp' = tmp ]_vars

\* A read operation has answered on an unparseable file.
C29_Witness ==
  /\ ev.op = "read"
  /\ ev.outcome = "no_session"
  /\ file.kind = "corrupt"

\* C30: a write that meets an I/O error (at writeFileSync or at
\* renameSync) throws to its caller, leaves the file exactly as it was,
\* and has removed the temp file when the unlink succeeded; so a store
\* operation that fails this way leaves the previous record readable, and
\* one that returns after calling write has stored its record.
C30_WriteErrorPropagates ==
  /\ [](\A v \in Creds, o \in {"fail_write", "fail_rename"} :
          LET session == setKnownAulaSessionId(file, v, now)
              cleaned == write(file, tmp, session, o, TRUE)
              left == write(file, tmp, session, o, FALSE)
          IN /\ cleaned.threw /\ cleaned.file = file /\ cleaned.tmp = Absent
             /\ left.threw /\ left.file = file)
  /\ [][ ev'.outcome \in {"fail_write", "fail_rename"} =>
           /\ ev'.op \in {"set", "touch", "markExpired"}
           /\ file' = file
           /\ read(file') = read(file)
           /\ tmp' \in {Absent, Partial, Intended(ev'.op, ev'.arg, file, now)} ]_vars
  /\ [][ ( /\ ev'.op \in {"set", "touch", "markExpired"}
           /\ ev'.outcome = "ok"
           /\ Intended(ev'.op, ev'.arg, file, now) # Null )
         => file' = Intended(ev'.op, ev'.arg, file, now) ]_vars

\* A setCredential failed at the rename: the earlier record is still the
\* file's content and the temp file is gone.
C30_Witness ==
  /\ ev.op = "set"
  /\ ev.arg = "s2"
  /\ ev.outcome = "fail_rename"
  /\ file.kind = "record"
  /\ file.phpsessid = "s1"
  /\ tmp = Absent

\* ------------------------------------------------------------------
\* Properties of failure handling, handles and the keepalive scheduler

\* C31: no request handler, no poll and no keepalive callback is left by
\* an error: each of them ends in one of its typed answers or returns.
C31_NoUncaughtThrow ==
  ~( /\ ev.op \in {"login_return", "check_return", "status_return",
                   "poll_return", "tick_done"}
     /\ ev.outcome = "threw" )

\* C32: while the stored record has a status other than active,
\* isSessionAvailable is false, the process holds no client reference,
\* and aula_session_status has not just answered authenticated: true.
C32_ExpiredNotUsable ==
  (file.kind = "record" /\ file.status # "active") =>
     /\ ~isSessionAvailable(file)
     /\ aulaClient = 0
     /\ ~(ev.op = "status_return" /\ ev.outcome = "authenticated")

\* C33: in every state of the process, for every controller, the page
\* handle is set only if the browser handle is set, and a browser handle is
\* set only if the controller launched a process; once a controller that
\* launched a process has dropped its browser handle, neither of its
\* handles is ever set again.
C33_HandleScoping ==
  /\ [](\A q \in 1..MaxSessions :
          /\ page[q] => browser[q]
          /\ browser[q] => proc[q] # "none")
  /\ [][ \A q \in 1..MaxSessions :
           (proc[q] # "none" /\ ~browser[q]) => (~browser'[q] /\ ~page'[q]) ]_vars

\* The signal handler's close() has returned on a controller that was
\* open: both handles are null.
C33_Witness ==
  /\ ev.op = "signal"
  /\ ev.outcome = "exit"
  /\ ev.n # 0
  /\ proc[ev.n] # "none"
  /\ ~browser[ev.n]
  /\ ~page[ev.n]

\* C34: when launchAndCaptureQR fails at a step after the launch (page
\* creation, navigation, settle delay or screenshot), the browser it
\* launched is no longer alive and the controller has both handles null
\* when aula_login returns the error.
C34_FailedOpenReleases ==
  [][ ( /\ ev'.op = "login_return"
        /\ ev'.outcome = "error"
        /\ ev'.arg \in {"newPage", "goto", "screenshot"} )
      => /\ proc'[qrSession'] # "alive"
         /\ ~browser'[qrSession']
         /\ ~page'[qrSession'] ]_vars

\* C35: the step that follows the storing of a freshly captured credential
\* is never an expiry by the keepalive: a callback that completes then
\* belongs to a ping issued before the capture, and neither it nor the
\* failures counted before the capture count against the new credential.
C35_OldTimerSparesNewSession ==
  [][ (ev.op = "poll_check" /\ ev.outcome = "stored") =>
        ~(ev'.op = "tick_done" /\ ev'.outcome = "expired") ]_vars

\* C36: a keepalive callback that completes for a timer which is no longer
\* the running one (it was cancelled while the ping was outstanding)
\* changes neither the running timer nor the client reference nor the
\* status of the stored record.
C36_StaleCallbackHarmless ==
  [][ (ev'.op = "tick_done" /\ ev'.n # keepaliveInterval) =>
        /\ UNCHANGED <<keepaliveInterval, timers, aulaClient>>
        /\ file'.status = file.status ]_vars

\* C37: the failure counter of every scheduler is between 0 and 3, and it
\* is below 3 while that scheduler's timer is running.
C37_FailureCounterRange ==
  \A t \in 1..MaxTimers :
    /\ consecutiveFailures[t] \in 0..MaxConsecutiveFailures
    /\ t \in timers => consecutiveFailures[t] < MaxConsecutiveFailures

\* C38: a keepalive callback whose ping succeeded does not increment the
\* failure counter of its scheduler and does not mark the record expired,
\* clear the client or stop the timer, whatever the outcome of the touch.
C38_SuccessfulPingNoStrike ==
  [][ (ev'.op = "tick_done" /\ ev'.arg = "ok") =>
        /\ consecutiveFailures'[ev'.n] <= consecutiveFailures[ev'.n]
        /\ file'.status = file.status
        /\ UNCHANGED <<aulaClient, keepaliveInterval, timers>> ]_vars

\* C39: whenever the keepalive is running with a client installed and
\* every ping fails from then on, the process eventually reaches a state
\* with the record expired, no client reference and no timer.
C39_ExpiryLiveness ==
  [](( timers # {} /\ aulaClient # 0) =>
       <>(file.status = "expired" /\ aulaClient = 0 /\ timers = {}))

====
